---- MODULE Spec2Model ----
(***************************************************************************)
(* Tug-of-War: the shared match state of one room, the clients that read   *)
(* and write it through useStateTogether, the 50ms rope resolution loop of *)
(* the Game component, the GameScene input/timer handlers and the          *)
(* settlement trigger that calls BlockchainService.finishGame.             *)
(*                                                                         *)
(* Store semantics (useStateTogether): every client renders a snapshot of  *)
(* the room state; a functional updater is evaluated on the writer's       *)
(* latest replica, which is at least as fresh as the rendered snapshot and *)
(* at most as fresh as the shared value, and its result replaces the       *)
(* shared value as a whole (last write wins); a client renders the shared  *)
(* value when it is delivered.                                             *)
(***************************************************************************)
EXTENDS Integers, Sequences, FiniteSets, TLC

VARIABLES
  present,       \* the clients that have the room page open in this run
  shared,        \* the replicated value stored under gameState_<roomId>
  local,         \* local[c]: client c's snapshot (gameState, currentStateRef.current, scene.gameState)
  stage,         \* Home: "idle" (no wallet), "connecting" (provider/signer set), "joined" (currentAddress set)
  connectPlayers,\* Home: safeGameState.players captured by the handleConnect call in progress
  joinTimer,     \* Home: the 300ms handlePlayerJoin timeout is armed
  sceneReady,    \* Game: isGameReady (GameScene created, updateCallback installed)
  pressed,       \* GameScene: currentPlayer1Pulling/currentPlayer2Pulling were reset by handlePull since the last updateGameState
  timerOn,       \* GameScene: timerEvent is running
  lastWinner,    \* GameScene: lastWinner
  latch,         \* Game: finishGameCalledRef.current
  iife,          \* Game: the settlement closures in flight, in launch order
  bcReady,       \* BlockchainService.isInitialized of the client's singleton
  finishedGames, \* BlockchainService.finishedGames has the room
  room,          \* TugOfWarAutoReward: rooms[roomId] of the room
  contractBalance, \* TugOfWarAutoReward: address(this).balance
  paidOut,       \* history: paidOut[a] is what the contract has transferred to address a
  directCalls,   \* history: number of transactions sent to the contract directly (not through the page)
  lastCall,      \* history: the last such transaction and its outcome ("ok" or the revert message)
  cdTimers,      \* Home: number of live countdown intervals started by handleStartGame
  lag,           \* lag[c]: shared writes not yet delivered to client c (saturates at MaxLag)
  presses,       \* history: presses[c] counts the pull requests client c submitted
  ropeStart,     \* history: ropePosition when the run began
  finishCalls    \* history: every invocation blockchainService.finishGame(roomId, winnerAddress), in order

chain == <<room, contractBalance, paidOut, directCalls, lastCall>>
page == <<present, shared, local, stage, connectPlayers, joinTimer, sceneReady, pressed, timerOn,
          lastWinner, latch, iife, bcReady, finishedGames, cdTimers, lag, presses, ropeStart, finishCalls>>

vars == <<present, shared, local, stage, connectPlayers, joinTimer, sceneReady, pressed, timerOn,
          lastWinner, latch, iife, bcReady, finishedGames, room, contractBalance, paidOut, directCalls, lastCall, cdTimers, lag, presses, ropeStart, finishCalls>>

----------------------------------------------------------------------------
(* Bounds *)

MaxAsync == 2        \* settlement closures in flight in the room
MaxFinishCalls == 2  \* recorded finishGame invocations
MaxIntervals == 1    \* live countdown intervals per client
MaxPresses == 2      \* pull requests submitted in one run
MaxLag == 2          \* shared writes a client may be behind before it must be delivered
MaxCalls == 6        \* transactions sent to the contract directly
MaxSoloPulls == 31   \* resolved pulls of a match played in lockstep

(* Program constants *)

CENTER == 600
MAX_DISTANCE == 350
PULL_FORCE == 10
WIN_PERCENT == 85
ROPE_BOUNDS_MARGIN == 50
COUNTDOWN_START == 3
P1_WIN_POSITION == 300
P2_WIN_POSITION == 900

Clients == {"c1", "c2", "c3"}
ROOM == "room"
NoWinner == "none"
NoRole == "undefined"
Roles == {"player1", "player2"}

(* The wallet address signer.getAddress() returns for a client (checksum   *)
(* casing) and String.prototype.toLowerCase on the addresses in use.       *)
AddressOf(c) == CASE c = "c1" -> "0xA1" [] c = "c2" -> "0xB2" [] OTHER -> "0xC3"

toLowerCase(a) ==
  CASE a = "0xA1" -> "0xa1" [] a = "0xB2" -> "0xb2" [] a = "0xC3" -> "0xc3" [] OTHER -> a

----------------------------------------------------------------------------
(* players: Record<string, {role, isReady}> as the sequence of its entries *)
(* in insertion order (the order Object.entries/Object.values enumerate).  *)

Entry(a, r, rd) == [addr |-> a, role |-> r, isReady |-> rd]

\* Array.prototype.find over the entries: the index of the first match, 0 for undefined
MinIndex(S) == IF S = {} THEN 0 ELSE CHOOSE i \in S : \A j \in S : i <= j

\* Object.entries(players).find(([addr]) => addr.toLowerCase() === a.toLowerCase())
FindByAddress(players, a) ==
  MinIndex({i \in 1..Len(players) : toLowerCase(players[i].addr) = toLowerCase(a)})

\* Object.entries(players).find(([, data]) => data.role === r)
FindByRole(players, r) ==
  MinIndex({i \in 1..Len(players) : players[i].role = r})

\* players[a]: property lookup with the exact key
KeyIndex(players, a) ==
  MinIndex({i \in 1..Len(players) : players[i].addr = a})

\* {...players, [a]: {role, isReady}}: an existing key keeps its place
SetKey(players, a, r, rd) ==
  IF KeyIndex(players, a) = 0 THEN Append(players, Entry(a, r, rd))
  ELSE [players EXCEPT ![KeyIndex(players, a)] = Entry(a, r, rd)]

RoleAt(players, a) ==
  IF KeyIndex(players, a) = 0 THEN NoRole ELSE players[KeyIndex(players, a)].role

HasRole(players, r) == \E i \in 1..Len(players) : players[i].role = r

allReady(players) == \A i \in 1..Len(players) : players[i].isReady

----------------------------------------------------------------------------
(* TugOfWarAutoReward: the room of the contract, amounts in finney         *)

STAKE_AMOUNT == 10            \* 0.01 ether
ZERO == "0x0"                 \* address(0)
Addresses == {AddressOf(c) : c \in Clients}

\* rooms[roomId] before any transaction
EmptyRoom ==
  [player1 |-> ZERO, player2 |-> ZERO, totalStake |-> 0,
   isActive |-> FALSE, gameFinished |-> FALSE, winner |-> ZERO]

\* hasStaked(roomId, player)
hasStaked(r, player) == r.player1 = player \/ r.player2 = player

\* the requires of stake (and the revert 'Room is full')
stakeRequires_NoDuplicateCheck(r, sender, value) ==
  /\ value = STAKE_AMOUNT
  /\ (r.player1 = ZERO \/ r.player2 = ZERO)

stakeRequires(r, sender, value) ==
  /\ value = STAKE_AMOUNT
  /\ sender # r.player1 /\ sender # r.player2
  /\ r.player1 = ZERO \/ r.player2 = ZERO

stakeEffect(r, sender, value) ==
  [r EXCEPT !.player1 = IF r.player1 = ZERO THEN sender ELSE @,
            !.player2 = IF r.player1 # ZERO THEN sender ELSE @,
            !.totalStake = @ + value,
            !.isActive = TRUE]

\* the requires of finishGame
finishGameRequires_AnyWinner(r, winner) ==
  r.isActive /\ ~r.gameFinished /\ r.player2 # ZERO

finishGameRequires(r, winner) ==
  /\ r.isActive
  /\ ~r.gameFinished
  /\ r.player2 # ZERO
  /\ winner = r.player1 \/ winner = r.player2

finishGameEffect_KeepsStake(r, winner) ==
  [r EXCEPT !.gameFinished = TRUE, !.winner = winner, !.isActive = FALSE]

finishGameEffect(r, winner) ==
  [r EXCEPT !.gameFinished = TRUE, !.winner = winner, !.isActive = FALSE, !.totalStake = 0]

\* the requires of retrieveStake
retrieveStakeRequires_NoStartedCheck(r, sender) ==
  r.isActive /\ ~r.gameFinished /\ (sender = r.player1 \/ sender = r.player2)

retrieveStakeRequires(r, sender) ==
  /\ r.isActive
  /\ ~r.gameFinished
  /\ sender = r.player1 \/ sender = r.player2
  /\ sender = r.player1 => r.player2 = ZERO

\* variant: player2's withdrawal leaves totalStake as it was
retrieveStakeEffect_KeepsTotal(r, sender) ==
  IF sender = r.player1
  THEN [r EXCEPT !.player1 = ZERO, !.isActive = FALSE, !.totalStake = 0]
  ELSE [r EXCEPT !.player2 = ZERO]

retrieveStakeEffect(r, sender) ==
  IF sender = r.player1
  THEN [r EXCEPT !.player1 = ZERO, !.isActive = FALSE, !.totalStake = 0]
  ELSE [r EXCEPT !.player2 = ZERO, !.totalStake = STAKE_AMOUNT]

\* the message of the first require that fails, "ok" when none does
stakeResult(r, sender, value) ==
  IF value # STAKE_AMOUNT THEN "Invalid stake amount"
  ELSE IF ~(sender # r.player1 /\ sender # r.player2) THEN "Already staked in this room"
  ELSE IF r.player1 # ZERO /\ r.player2 # ZERO THEN "Room is full"
  ELSE "ok"

finishGameResult(r, winner) ==
  IF ~r.isActive THEN "Room is not active"
  ELSE IF r.gameFinished THEN "Game already finished"
  ELSE IF r.player2 = ZERO THEN "Game not started"
  ELSE IF ~(winner = r.player1 \/ winner = r.player2) THEN "Invalid winner"
  ELSE "ok"

retrieveStakeResult(r, sender) ==
  IF ~r.isActive THEN "Room is not active"
  ELSE IF r.gameFinished THEN "Game already finished"
  ELSE IF ~(sender = r.player1 \/ sender = r.player2) THEN "Not a player"
  ELSE IF sender = r.player1 /\ r.player2 # ZERO THEN "Game already started"
  ELSE "ok"

NoCall == [fn |-> "none", sender |-> ZERO, arg |-> ZERO, result |-> "none"]

----------------------------------------------------------------------------
(* The initial value both Home and Game pass to useStateTogether.          *)

InitialState ==
  [ players |-> << >>,
    roomId |-> ROOM,
    isStarted |-> FALSE,
    ropePosition |-> CENTER,
    player1Pulling |-> FALSE,
    player2Pulling |-> FALSE,
    winner |-> NoWinner,
    countdown |-> 0,                 \* 0 stands for undefined
    isCountingDown |-> FALSE,
    showStartButton |-> FALSE,
    gameFinishedOnBlockchain |-> FALSE ]

InitWith(P) ==
  /\ present = P
  /\ shared = InitialState
  /\ local = [c \in Clients |-> InitialState]
  /\ stage = [c \in Clients |-> "idle"]
  /\ connectPlayers = [c \in Clients |-> << >>]
  /\ joinTimer = [c \in Clients |-> FALSE]
  /\ sceneReady = [c \in Clients |-> FALSE]
  /\ pressed = [c \in Clients |-> FALSE]
  /\ timerOn = [c \in Clients |-> FALSE]
  /\ lastWinner = [c \in Clients |-> NoWinner]
  /\ latch = [c \in Clients |-> FALSE]
  /\ iife = [c \in Clients |-> << >>]
  /\ bcReady = [c \in Clients |-> FALSE]
  /\ finishedGames = [c \in Clients |-> FALSE]
  /\ room = EmptyRoom
  /\ contractBalance = 0
  /\ paidOut = [a \in Addresses |-> 0]
  /\ directCalls = 0
  /\ lastCall = NoCall
  /\ cdTimers = [c \in Clients |-> 0]
  /\ lag = [c \in Clients |-> 0]
  /\ presses = [c \in Clients |-> 0]
  /\ ropeStart = CENTER
  /\ finishCalls = << >>

Init == InitWith({"c1", "c2"})

----------------------------------------------------------------------------
(* useStateTogether                                                        *)

Min(a, b) == IF a < b THEN a ELSE b
Max(a, b) == IF a > b THEN a ELSE b

\* setGameState(value): the value replaces the shared one; every client is
\* one more write behind until it is delivered.
Publish(new) ==
  /\ shared' = new
  /\ lag' = IF new = shared THEN lag
            ELSE [d \in Clients |-> IF d \in present THEN Min(lag[d] + 1, MaxLag) ELSE lag[d]]

\* prev of setGameState(prev => ...): the writer's replica is the snapshot
\* it rendered or has caught up with the shared value.
Prev(c) == {local[c], shared}

\* A client starts a handler of its own only while no client is MaxLag
\* writes behind (the bound on staleness).
CanAct == \A d \in present : stage[d] # "left" => lag[d] < MaxLag

----------------------------------------------------------------------------
(* Home: joining                                                           *)

\* The branch handleConnect and the handlePlayerJoin effect take on the
\* players of their snapshot for address a.
JoinDecision(players, a) ==
  IF FindByAddress(players, a) # 0 THEN "already"
  ELSE IF ~(Len(players) > 0) THEN "player1"
  ELSE IF ~HasRole(players, "player2") THEN "player2"
  ELSE "full"

\* The updater of the two join branches.
JoinUpdate(prevState, a, role) ==
  [prevState EXCEPT
     !.players = SetKey(prevState.players, a, role, FALSE),
     !.roomId = IF role = "player1" THEN ROOM ELSE prevState.roomId,
     !.showStartButton = FALSE,
     !.countdown = 0,
     !.isCountingDown = FALSE,
     !.gameFinishedOnBlockchain = FALSE]

\* The effect's timeout is re-armed on every render; its handler decides on
\* the snapshot of that render, and it is a no-op when the address is present.
JoinArmed(st, a) == JoinDecision(st.players, a) # "already"

\* The join logic shared by handleConnect and the effect, deciding on the
\* players of the snapshot the handler closed over.
JoinStep(c, players) ==
  LET d == JoinDecision(players, AddressOf(c)) IN
  /\ IF d \in Roles
       THEN \E prevState \in Prev(c) : Publish(JoinUpdate(prevState, AddressOf(c), d))
       ELSE UNCHANGED <<shared, lag>>
  /\ stage' = [stage EXCEPT ![c] = IF d = "full" THEN "rejected" ELSE "joined"]

\* handleConnect up to the await (the callback closed over the snapshot of
\* the render that created it): setProvider/setSigner render the Game
\* component, whose mount effect recentres the rope and clears the latch.
MountUpdate(prevState) == [prevState EXCEPT !.ropePosition = CENTER]

Connect(c) ==
  /\ c \in present
  /\ stage[c] = "idle"
  /\ CanAct
  /\ stage' = [stage EXCEPT ![c] = "connecting"]
  /\ connectPlayers' = [connectPlayers EXCEPT ![c] = local[c].players]
  /\ \E prevState \in Prev(c) : Publish(MountUpdate(prevState))
  /\ latch' = [latch EXCEPT ![c] = FALSE]
  /\ UNCHANGED <<present, ropeStart, local, joinTimer, sceneReady, pressed, timerOn, lastWinner,
                 iife, bcReady, finishedGames, chain, cdTimers, presses, finishCalls>>

\* handleConnect after signer.getAddress() resolved.
ConnectJoin(c) ==
  /\ c \in present
  /\ stage[c] = "connecting"
  /\ CanAct
  /\ JoinStep(c, connectPlayers[c])
  /\ connectPlayers' = [connectPlayers EXCEPT ![c] = << >>]
  /\ joinTimer' = [joinTimer EXCEPT ![c] = JoinArmed(local[c], AddressOf(c))]
  /\ UNCHANGED <<present, ropeStart, local, sceneReady, pressed, timerOn, lastWinner, latch,
                 iife, bcReady, finishedGames, chain, cdTimers, presses, finishCalls>>

\* The 300ms timeout of the handlePlayerJoin effect fires.
JoinEffect(c) ==
  /\ c \in present
  /\ stage[c] \in {"joined", "rejected"}
  /\ joinTimer[c]
  /\ CanAct
  /\ JoinStep(c, local[c].players)
  /\ joinTimer' = [joinTimer EXCEPT ![c] = FALSE]
  /\ UNCHANGED <<present, ropeStart, connectPlayers, local, sceneReady, pressed, timerOn, lastWinner, latch,
                 iife, bcReady, finishedGames, chain, cdTimers, presses, finishCalls>>

\* The 2s redirect after 'Room is full': the page is left, Home and Game unmount.
Leave(c) ==
  /\ c \in present
  /\ stage[c] = "rejected"
  /\ stage' = [stage EXCEPT ![c] = "left"]
  /\ joinTimer' = [joinTimer EXCEPT ![c] = FALSE]
  /\ timerOn' = [timerOn EXCEPT ![c] = FALSE]
  /\ cdTimers' = [cdTimers EXCEPT ![c] = 0]
  /\ lag' = [lag EXCEPT ![c] = 0]
  /\ UNCHANGED <<present, ropeStart, connectPlayers, shared, local, sceneReady, pressed, lastWinner, latch,
                 iife, bcReady, finishedGames, chain, presses, finishCalls>>

Mounted(c) == c \in present /\ stage[c] \in {"connecting", "joined", "rejected"}
HasAddress(c) == c \in present /\ stage[c] \in {"joined", "rejected"}

----------------------------------------------------------------------------
(* Home: readiness, start button, countdown                                *)

\* The updater of handleStakeSuccess for currentAddress a.
StakeUpdate(prevState, a) ==
  LET updatedPlayers == SetKey(prevState.players, a, RoleAt(prevState.players, a), TRUE)
      hasAllPlayers == Len(updatedPlayers) >= 2
      isPlayer1 == RoleAt(updatedPlayers, a) = "player1"
  IN [prevState EXCEPT
        !.players = updatedPlayers,
        !.showStartButton =
           \/ prevState.showStartButton
           \/ /\ allReady(updatedPlayers) /\ hasAllPlayers /\ isPlayer1
              /\ ~prevState.isStarted /\ prevState.winner = NoWinner
              /\ ~prevState.isCountingDown]

\* The condition of the 'show start button' effect on the rendered snapshot.
StartButtonCond(st, a) ==
  /\ allReady(st.players)
  /\ Len(st.players) >= 2
  /\ RoleAt(st.players, a) = "player1"
  /\ ~st.isStarted /\ ~st.showStartButton /\ st.winner = NoWinner /\ ~st.isCountingDown

ShowStartUpdate(prevState) == [prevState EXCEPT !.showStartButton = TRUE]

\* BlockchainService.initialize, started by StakeManager's mount effect.
InitBlockchain(c) ==
  /\ Mounted(c)
  /\ ~bcReady[c]
  /\ bcReady' = [bcReady EXCEPT ![c] = TRUE]
  /\ UNCHANGED <<present, ropeStart, connectPlayers, shared, local, stage, joinTimer, sceneReady, pressed, timerOn,
                 lastWinner, latch, iife, finishedGames, chain, cdTimers,
                 lag, presses, finishCalls>>

\* StakeManager.handleStake: the stake transaction is confirmed (the contract
\* takes one stake per address and two per room), then onStakeSuccess runs.
Stake(c) ==
  /\ HasAddress(c)
  /\ bcReady[c]
  /\ ~hasStaked(room, AddressOf(c))
  /\ stakeRequires(room, AddressOf(c), STAKE_AMOUNT)
  /\ CanAct
  /\ room' = stakeEffect(room, AddressOf(c), STAKE_AMOUNT)
  /\ contractBalance' = contractBalance + STAKE_AMOUNT
  /\ finishedGames' = [finishedGames EXCEPT ![c] = FALSE]
  /\ \E prevState \in Prev(c) : Publish(StakeUpdate(prevState, AddressOf(c)))
  /\ UNCHANGED <<present, ropeStart, connectPlayers, local, stage, joinTimer, sceneReady, pressed, timerOn,
                 lastWinner, latch, iife, bcReady, paidOut, directCalls, lastCall, cdTimers, presses, finishCalls>>

StartUpdate(prevState) ==
  [prevState EXCEPT !.showStartButton = FALSE, !.isStarted = FALSE,
                    !.countdown = COUNTDOWN_START, !.isCountingDown = TRUE]

\* Click on START GAME: rendered only for player1 while showStartButton.
StartGame(c) ==
  /\ HasAddress(c)
  /\ local[c].showStartButton
  /\ RoleAt(local[c].players, AddressOf(c)) = "player1"
  /\ cdTimers[c] < MaxIntervals
  /\ CanAct
  /\ \E prevState \in Prev(c) : Publish(StartUpdate(prevState))
  /\ cdTimers' = [cdTimers EXCEPT ![c] = @ + 1]
  /\ UNCHANGED <<present, ropeStart, connectPlayers, local, stage, joinTimer, sceneReady, pressed, timerOn,
                 lastWinner, latch, iife, bcReady, finishedGames, chain,
                 presses, finishCalls>>

\* variant: the interval counts down two at a time
NextCountdown_ByTwo(prevState) ==
  (IF prevState.countdown = 0 THEN COUNTDOWN_START ELSE prevState.countdown) - 2

\* prevState.countdown || 3, minus one
NextCountdown(prevState) ==
  (IF prevState.countdown = 0 THEN COUNTDOWN_START ELSE prevState.countdown) - 1

CountdownUpdate(prevState) ==
  IF NextCountdown(prevState) <= 0
  THEN [prevState EXCEPT !.isStarted = TRUE, !.isCountingDown = FALSE, !.countdown = 0]
  ELSE [prevState EXCEPT !.countdown = NextCountdown(prevState)]

\* One firing of a countdown interval (1s).
CountdownTick(c) ==
  /\ c \in present
  /\ cdTimers[c] > 0
  /\ CanAct
  /\ \E prevState \in Prev(c) :
       /\ Publish(CountdownUpdate(prevState))
       /\ cdTimers' = [cdTimers EXCEPT ![c] = IF NextCountdown(prevState) <= 0 THEN @ - 1 ELSE @]
  /\ UNCHANGED <<present, ropeStart, connectPlayers, local, stage, joinTimer, sceneReady, pressed, timerOn,
                 lastWinner, latch, iife, bcReady, finishedGames, chain,
                 presses, finishCalls>>

----------------------------------------------------------------------------
(* GameScene                                                               *)

\* clampRopePosition: rope.x for a state position (cameras.main.centerX = 600)
clampRopePosition(position) ==
  Max(CENTER - MAX_DISTANCE + ROPE_BOUNDS_MARGIN,
      Min(CENTER + MAX_DISTANCE - ROPE_BOUNDS_MARGIN, position))

\* variant: the bounds margin is taken outward instead of inward
HandleWinUpdate_MarginOutward(prevState, w) ==
  [prevState EXCEPT
     !.isStarted = FALSE, !.winner = w,
     !.player1Pulling = FALSE, !.player2Pulling = FALSE,
     !.ropePosition = IF w = "player1" THEN CENTER - MAX_DISTANCE - ROPE_BOUNDS_MARGIN
                                         ELSE CENTER + MAX_DISTANCE + ROPE_BOUNDS_MARGIN,
     !.countdown = 0, !.isCountingDown = FALSE]

\* the updateCallback payload of handleWin
HandleWinUpdate(prevState, w) ==
  [prevState EXCEPT
     !.isStarted = FALSE, !.winner = w,
     !.player1Pulling = FALSE, !.player2Pulling = FALSE,
     !.ropePosition = IF w = "player1" THEN P1_WIN_POSITION ELSE P2_WIN_POSITION,
     !.countdown = 0, !.isCountingDown = FALSE]

\* the winner handleTimeUp picks from rope.x
\* variant: a rope exactly at the centre goes to player2
TimeUpWinner_Strict(ropeX) == IF ropeX - CENTER < 0 THEN "player1" ELSE "player2"

TimeUpWinner(ropeX) == IF ropeX - CENTER <= 0 THEN "player1" ELSE "player2"

HandleTimeUpUpdate(prevState, w) ==
  [prevState EXCEPT
     !.winner = w, !.isStarted = FALSE,
     !.player1Pulling = FALSE, !.player2Pulling = FALSE,
     !.countdown = 0, !.isCountingDown = FALSE]

\* updatePlayerInfo: the role of the entry whose address matches the wallet
PlayerRole(st, c) ==
  LET i == FindByAddress(st.players, AddressOf(c)) IN
  IF i # 0 /\ st.players[i].role \in Roles THEN st.players[i].role ELSE NoRole

\* The Phaser scene is created: isGameReady. updateGameState runs on the
\* current snapshot before initGameState installs the updateCallback, so a
\* winner already present is remembered but handleWin returns early.
SceneReady(c) ==
  /\ Mounted(c)
  /\ ~sceneReady[c]
  /\ sceneReady' = [sceneReady EXCEPT ![c] = TRUE]
  /\ timerOn' = [timerOn EXCEPT ![c] = local[c].isStarted]
  /\ lastWinner' = [lastWinner EXCEPT ![c] = local[c].winner]
  /\ pressed' = [pressed EXCEPT ![c] = FALSE]
  /\ UNCHANGED <<present, ropeStart, connectPlayers, shared, local, stage, joinTimer, latch, iife, bcReady,
                 finishedGames, chain, cdTimers, lag, presses, finishCalls>>

\* currentPlayer1Pulling / currentPlayer2Pulling of the scene
CurrentPulling(c, flag) == IF pressed[c] THEN FALSE ELSE flag

PullUpdate(prevState, p1, p2) ==
  [prevState EXCEPT !.player1Pulling = p1, !.player2Pulling = p2]

\* SPACE 'down' with every condition met, then handlePull. The 100ms
\* pullCooldown and the 50ms throttle have elapsed since the client's last
\* pull (time is not modelled: they limit the rate, not the order).
Press(c) ==
  LET st == local[c]
      i == FindByAddress(st.players, AddressOf(c))
      role == PlayerRole(st, c)
      cur1 == CurrentPulling(c, st.player1Pulling)
      cur2 == CurrentPulling(c, st.player2Pulling)
  IN
  /\ c \in present /\ stage[c] # "left"
  /\ sceneReady[c]
  /\ role \in Roles
  /\ st.isStarted
  /\ i # 0 /\ st.players[i].isReady
  /\ ~(role = "player1" /\ cur1)
  /\ ~(role = "player2" /\ cur2)
  /\ CanAct
  /\ presses["c1"] + presses["c2"] + presses["c3"] < MaxPresses
  /\ \E prevState \in Prev(c) :
       Publish(PullUpdate(prevState, cur1 \/ role = "player1", cur2 \/ role = "player2"))
  /\ pressed' = [pressed EXCEPT ![c] = TRUE]
  /\ presses' = [presses EXCEPT ![c] = @ + 1]
  /\ UNCHANGED <<present, ropeStart, connectPlayers, local, stage, joinTimer, sceneReady, timerOn, lastWinner, latch,
                 iife, bcReady, finishedGames, chain, cdTimers, finishCalls>>

\* The game timer reaches 0: updateTimer calls handleTimeUp.
TimeUp(c) ==
  /\ c \in present /\ stage[c] # "left"
  /\ timerOn[c]
  /\ CanAct
  /\ timerOn' = [timerOn EXCEPT ![c] = FALSE]
  /\ \E prevState \in Prev(c) :
       Publish(HandleTimeUpUpdate(prevState,
                 TimeUpWinner(clampRopePosition(local[c].ropePosition))))
  /\ UNCHANGED <<present, ropeStart, connectPlayers, local, stage, joinTimer, sceneReady, pressed, lastWinner, latch,
                 iife, bcReady, finishedGames, chain, cdTimers, presses, finishCalls>>

----------------------------------------------------------------------------
(* Game: the 50ms resolution loop                                          *)

\* variant: player1's flag wins over player2's instead of cancelling it
NewRopePosition_Player1First(currentState) ==
  IF currentState.player1Pulling
  THEN Max(CENTER - MAX_DISTANCE, currentState.ropePosition - PULL_FORCE)
  ELSE IF currentState.player2Pulling
  THEN Min(CENTER + MAX_DISTANCE, currentState.ropePosition + PULL_FORCE)
  ELSE currentState.ropePosition

\* newRopePosition of one loop iteration on currentState
NewRopePosition(currentState) ==
  LET afterP1 == IF currentState.player1Pulling /\ ~currentState.player2Pulling
                 THEN Max(CENTER - MAX_DISTANCE, currentState.ropePosition - PULL_FORCE)
                 ELSE currentState.ropePosition
  IN IF ~currentState.player1Pulling /\ currentState.player2Pulling
     THEN Min(CENTER + MAX_DISTANCE, afterP1 + PULL_FORCE)
     ELSE afterP1

shouldUpdate(currentState) ==
  \/ currentState.player1Pulling /\ ~currentState.player2Pulling
  \/ ~currentState.player1Pulling /\ currentState.player2Pulling

\* variant: the two sides of the win check are swapped
LoopWinner_Swapped(newRopePosition) ==
  IF newRopePosition * 100 <= CENTER * 100 - MAX_DISTANCE * WIN_PERCENT THEN "player2"
  ELSE IF newRopePosition * 100 >= CENTER * 100 + MAX_DISTANCE * WIN_PERCENT THEN "player1"
  ELSE NoWinner

\* winDistance = maxDistance * 0.85, compared in hundredths
LoopWinner(newRopePosition) ==
  IF newRopePosition * 100 <= CENTER * 100 - MAX_DISTANCE * WIN_PERCENT THEN "player1"
  ELSE IF newRopePosition * 100 >= CENTER * 100 + MAX_DISTANCE * WIN_PERCENT THEN "player2"
  ELSE NoWinner

\* variant: the updater does not write the winner
LoopUpdate_DropsWinner(prevState, newRopePosition, w) ==
  [prevState EXCEPT
     !.ropePosition = newRopePosition,
     !.player1Pulling = FALSE,
     !.player2Pulling = FALSE]

\* newState of the loop's updater
LoopUpdate(prevState, newRopePosition, w) ==
  [prevState EXCEPT
     !.ropePosition = newRopePosition,
     !.winner = IF w # NoWinner THEN w ELSE prevState.winner,
     !.isStarted = IF w # NoWinner THEN FALSE ELSE prevState.isStarted,
     !.player1Pulling = FALSE,
     !.player2Pulling = FALSE,
     !.countdown = IF w # NoWinner THEN 0 ELSE prevState.countdown,
     !.isCountingDown = IF w # NoWinner THEN FALSE ELSE prevState.isCountingDown]

\* the condition under which the updater starts the settlement closure
ShouldCallFinishGame(c, prevState, currentState, w) ==
  /\ w # NoWinner
  /\ currentState.roomId = ROOM
  /\ ~prevState.gameFinishedOnBlockchain
  /\ ~latch[c]

Closure(currentState, w) ==
  [pc |-> "import", winner |-> w, players |-> currentState.players,
   roomId |-> currentState.roomId, winnerAddress |-> ""]

InFlight == Len(iife["c1"]) + Len(iife["c2"]) + Len(iife["c3"])

\* The interval is alive while the rendered state has isStarted and no winner.
LoopRunning(c) == Mounted(c) /\ local[c].isStarted /\ local[c].winner = NoWinner

\* One firing of the interval that passes the 50ms debounce and writes.
GameLoopTick(c) ==
  LET currentState == local[c]
      newRopePosition == NewRopePosition(currentState)
      w == LoopWinner(newRopePosition)
  IN
  /\ LoopRunning(c)
  /\ shouldUpdate(currentState) \/ w # NoWinner
  /\ CanAct
  /\ \E prevState \in Prev(c) :
       LET launch == ShouldCallFinishGame(c, prevState, currentState, w) IN
       /\ launch => InFlight < MaxAsync
       /\ Publish(LoopUpdate(prevState, newRopePosition, w))
       /\ iife' = [iife EXCEPT ![c] = IF launch THEN Append(@, Closure(currentState, w)) ELSE @]
  /\ UNCHANGED <<present, ropeStart, connectPlayers, local, stage, joinTimer, sceneReady, pressed, timerOn, lastWinner,
                 latch, bcReady, finishedGames, chain, cdTimers, presses, finishCalls>>

----------------------------------------------------------------------------
(* Game: the settlement closure                                            *)

RemoveAt(s, i) == SubSeq(s, 1, i - 1) \o SubSeq(s, i + 1, Len(s))

\* variant: the address comparison is dropped
IsPlayer1_AnyClient(players, c) ==
  FindByRole(players, "player1") # 0

\* player1Data && player1Data[0].toLowerCase() === currentPlayerAddress.toLowerCase()
IsPlayer1(players, c) ==
  /\ FindByRole(players, "player1") # 0
  /\ toLowerCase(players[FindByRole(players, "player1")].addr) = toLowerCase(AddressOf(c))

\* the dynamic import resolved; blockchainService.isReady() decides
ClosureImported(c, i) ==
  /\ c \in present
  /\ i \in 1..Len(iife[c])
  /\ iife[c][i].pc = "import"
  /\ iife' = [iife EXCEPT ![c] = IF bcReady[c] THEN [@ EXCEPT ![i].pc = "address"]
                                 ELSE RemoveAt(@, i)]
  /\ UNCHANGED <<present, ropeStart, connectPlayers, shared, local, stage, joinTimer, sceneReady, pressed, timerOn,
                 lastWinner, latch, bcReady, finishedGames, chain, cdTimers,
                 lag, presses, finishCalls>>

\* getCurrentAddress resolved: the player1 check, the winner lookup, the
\* latch and the call blockchainService.finishGame(roomId, winnerAddress)
ClosureAddress(c, i) ==
  LET f == iife[c][i]
      wi == FindByRole(f.players, f.winner)
      call == IsPlayer1(f.players, c) /\ wi # 0
  IN
  /\ c \in present
  /\ i \in 1..Len(iife[c])
  /\ f.pc = "address"
  /\ call => Len(finishCalls) < MaxFinishCalls
  /\ IF call
       THEN /\ latch' = [latch EXCEPT ![c] = TRUE]
            /\ finishCalls' = Append(finishCalls,
                 [client |-> c, roomId |-> f.roomId, winner |-> f.players[wi].addr])
            /\ iife' = [iife EXCEPT ![c][i] =
                 [@ EXCEPT !.pc = IF finishedGames[c] THEN "returned" ELSE "tx",
                           !.winnerAddress = f.players[wi].addr]]
       ELSE /\ iife' = [iife EXCEPT ![c] = RemoveAt(@, i)]
            /\ UNCHANGED <<latch, finishCalls>>
  /\ UNCHANGED <<present, ropeStart, connectPlayers, shared, local, stage, joinTimer, sceneReady, pressed, timerOn,
                 lastWinner, bcReady, finishedGames, chain, cdTimers, lag, presses>>

GameFinishedUpdate(prevState) == [prevState EXCEPT !.gameFinishedOnBlockchain = TRUE]

\* the contract accepts finishGame(roomId, winner)
ContractAccepts(winnerAddr) == finishGameRequires(room, winnerAddr)

\* the transaction of BlockchainService.finishGame is confirmed (ok) or it
\* is rejected / reverted and the error is caught by the closure
ClosureTx(c, i, ok) ==
  LET f == iife[c][i] IN
  /\ c \in present
  /\ i \in 1..Len(iife[c])
  /\ f.pc = "tx"
  /\ ok => ContractAccepts(f.winnerAddress)
  /\ IF ok
       THEN /\ room' = finishGameEffect(room, f.winnerAddress)
            /\ contractBalance' = contractBalance - room.totalStake
            /\ paidOut' = [paidOut EXCEPT ![f.winnerAddress] = @ + room.totalStake]
            /\ finishedGames' = [finishedGames EXCEPT ![c] = TRUE]
            /\ iife' = [iife EXCEPT ![c][i].pc = "returned"]
       ELSE /\ iife' = [iife EXCEPT ![c] = RemoveAt(@, i)]
            /\ UNCHANGED <<room, contractBalance, paidOut, finishedGames>>
  /\ UNCHANGED <<present, ropeStart, connectPlayers, shared, local, stage, joinTimer, sceneReady, pressed, timerOn,
                 lastWinner, latch, bcReady, directCalls, lastCall, cdTimers, lag, presses, finishCalls>>

\* finishGame returned: the closure publishes gameFinishedOnBlockchain
ClosureReturned(c, i) ==
  /\ c \in present
  /\ i \in 1..Len(iife[c])
  /\ iife[c][i].pc = "returned"
  /\ CanAct
  /\ \E prevState \in Prev(c) : Publish(GameFinishedUpdate(prevState))
  /\ iife' = [iife EXCEPT ![c] = RemoveAt(@, i)]
  /\ UNCHANGED <<present, ropeStart, connectPlayers, local, stage, joinTimer, sceneReady, pressed, timerOn, lastWinner,
                 latch, bcReady, finishedGames, chain, cdTimers, presses, finishCalls>>

----------------------------------------------------------------------------
(* Delivery of the shared value: the client re-renders and its effects run *)

\* what the effects of one render publish, as a sequence of values
\* (GameScene.updateGameState -> handleWin, then Home's start-button effect)
RenderWrites(c, old, new) ==
  (IF sceneReady[c] /\ new.winner # NoWinner /\ new.winner # lastWinner[c]
     THEN << HandleWinUpdate(new, new.winner) >> ELSE << >>)
  \o
  (IF HasAddress(c) /\ StartButtonCond(new, AddressOf(c))
     THEN << ShowStartUpdate(new) >> ELSE << >>)

Deliver(c) ==
  LET old == local[c]
      new == shared
      writes == RenderWrites(c, old, new)
      newWin == sceneReady[c] /\ new.winner # NoWinner /\ new.winner # lastWinner[c]
      justStarted == sceneReady[c] /\ ~old.isStarted /\ new.isStarted
      value == IF writes = << >> THEN shared ELSE writes[Len(writes)]
  IN
  /\ c \in present /\ stage[c] # "left"
  /\ lag[c] > 0
  /\ local' = [local EXCEPT ![c] = new]
  /\ shared' = value
  /\ lag' = [d \in Clients |->
               IF d \notin present THEN lag[d]
               ELSE IF value # shared THEN Min((IF d = c THEN 0 ELSE lag[d]) + 1, MaxLag)
               ELSE IF d = c THEN 0 ELSE lag[d]]
  /\ lastWinner' = [lastWinner EXCEPT ![c] = IF newWin THEN new.winner ELSE @]
  /\ timerOn' = [timerOn EXCEPT ![c] = IF newWin THEN FALSE ELSE IF justStarted THEN TRUE ELSE @]
  /\ pressed' = [pressed EXCEPT ![c] = IF sceneReady[c] THEN FALSE ELSE @]
  /\ joinTimer' = [joinTimer EXCEPT ![c] = HasAddress(c) /\ JoinArmed(new, AddressOf(c))]
  /\ UNCHANGED <<present, ropeStart, connectPlayers, stage, sceneReady, latch, iife, bcReady, finishedGames, chain, cdTimers, presses, finishCalls>>

----------------------------------------------------------------------------

LobbyStep(c) ==
  \/ Connect(c)
  \/ ConnectJoin(c)
  \/ JoinEffect(c)
  \/ Leave(c)
  \/ InitBlockchain(c)
  \/ Stake(c)
  \/ SceneReady(c)
  \/ StartGame(c)
  \/ CountdownTick(c)

PlayStep(c) ==
  \/ Press(c)
  \/ TimeUp(c)
  \/ GameLoopTick(c)
  \/ \E i \in 1..MaxAsync : ClosureImported(c, i)
  \/ \E i \in 1..MaxAsync : ClosureAddress(c, i)
  \/ \E i \in 1..MaxAsync, ok \in BOOLEAN : ClosureTx(c, i, ok)
  \/ \E i \in 1..MaxAsync : ClosureReturned(c, i)

Next == \E c \in Clients : LobbyStep(c) \/ PlayStep(c) \/ Deliver(c)

Spec == Init /\ [][Next]_vars

(* Three clients open the room and join it.                                *)
JoinStep3(c) == Connect(c) \/ ConnectJoin(c) \/ JoinEffect(c) \/ Leave(c)
InitJoin == InitWith({"c1", "c2", "c3"})
NextJoin == \E c \in Clients : JoinStep3(c) \/ Deliver(c)
SpecJoin == InitJoin /\ [][NextJoin]_vars

(* The lobby of a room with two clients: joining, staking, start, countdown. *)
(* With two visitors nobody is turned away, so nobody takes the redirect.   *)
InitLobby == InitWith({"c1", "c2"})
NextLobby ==
  \E c \in Clients :
    \/ Connect(c) \/ ConnectJoin(c) \/ JoinEffect(c)
    \/ InitBlockchain(c) \/ Stake(c) \/ SceneReady(c)
    \/ StartGame(c) \/ CountdownTick(c)
    \/ Deliver(c)
SpecLobby == InitLobby /\ [][NextLobby]_vars

(* A match from the moment the countdown write isStarted = true has been   *)
(* delivered to both players: c1 joined first, c2 second, both staked.     *)
PlayersReady ==
  << Entry(AddressOf("c1"), "player1", TRUE), Entry(AddressOf("c2"), "player2", TRUE) >>

StartedState(pos) ==
  [InitialState EXCEPT !.players = PlayersReady, !.isStarted = TRUE, !.ropePosition = pos]

InPlay == {"c1", "c2"}

\* The rope positions a match can be at (a multiple of PULL_FORCE from the
\* centre, no winner yet) that are the centre or within NearPulls pulls of a win.
NearPulls == 1

StartPositions ==
  {pos \in (CENTER - MAX_DISTANCE)..(CENTER + MAX_DISTANCE) :
     /\ (pos - CENTER) % PULL_FORCE = 0
     /\ LoopWinner(pos) = NoWinner
     /\ \/ pos = CENTER
        \/ LoopWinner(pos - NearPulls * PULL_FORCE) # NoWinner
        \/ LoopWinner(pos + NearPulls * PULL_FORCE) # NoWinner}

InitPlayAt(pos) ==
  /\ present = InPlay
  /\ ropeStart = pos
  /\ shared = StartedState(pos)
  /\ local = [c \in Clients |-> IF c \in InPlay THEN StartedState(pos) ELSE InitialState]
  /\ stage = [c \in Clients |-> IF c \in InPlay THEN "joined" ELSE "idle"]
  /\ connectPlayers = [c \in Clients |-> << >>]
  /\ joinTimer = [c \in Clients |-> FALSE]
  /\ sceneReady = [c \in Clients |-> c \in InPlay]
  /\ pressed = [c \in Clients |-> FALSE]
  /\ timerOn = [c \in Clients |-> c \in InPlay]
  /\ lastWinner = [c \in Clients |-> NoWinner]
  /\ latch = [c \in Clients |-> FALSE]
  /\ iife = [c \in Clients |-> << >>]
  /\ bcReady = [c \in Clients |-> c \in InPlay]
  /\ finishedGames = [c \in Clients |-> FALSE]
  /\ room = stakeEffect(stakeEffect(EmptyRoom, AddressOf("c1"), STAKE_AMOUNT),
                         AddressOf("c2"), STAKE_AMOUNT)
  /\ contractBalance = 2 * STAKE_AMOUNT
  /\ paidOut = [a \in Addresses |-> 0]
  /\ directCalls = 0
  /\ lastCall = NoCall
  /\ cdTimers = [c \in Clients |-> 0]
  /\ lag = [c \in Clients |-> 0]
  /\ presses = [c \in Clients |-> 0]
  /\ finishCalls = << >>

InitPlay == \E pos \in StartPositions : InitPlayAt(pos)

NextPlay == \E c \in Clients : PlayStep(c) \/ Deliver(c)
SpecPlay == InitPlay /\ [][NextPlay]_vars

(* A lobby in which c1 and c2 have joined and staked and player1 sees the  *)
(* start button, while a third visitor's handleConnect is still waiting    *)
(* for its wallet: the callback was created by a render that showed only   *)
(* player1 in the room.                                                    *)
ReadyToStart ==
  [InitialState EXCEPT !.players = PlayersReady, !.showStartButton = TRUE]

InitLate ==
  /\ present = {"c1", "c2", "c3"}
  /\ ropeStart = CENTER
  /\ shared = ReadyToStart
  /\ local = [c \in Clients |-> ReadyToStart]
  /\ stage = [c \in Clients |-> IF c \in InPlay THEN "joined" ELSE "connecting"]
  /\ connectPlayers =
       [c \in Clients |-> IF c \in InPlay THEN << >>
                          ELSE << Entry(AddressOf("c1"), "player1", FALSE) >>]
  /\ joinTimer = [c \in Clients |-> FALSE]
  /\ sceneReady = [c \in Clients |-> FALSE]
  /\ pressed = [c \in Clients |-> FALSE]
  /\ timerOn = [c \in Clients |-> FALSE]
  /\ lastWinner = [c \in Clients |-> NoWinner]
  /\ latch = [c \in Clients |-> FALSE]
  /\ iife = [c \in Clients |-> << >>]
  /\ bcReady = [c \in Clients |-> c \in InPlay]
  /\ finishedGames = [c \in Clients |-> FALSE]
  /\ room = stakeEffect(stakeEffect(EmptyRoom, AddressOf("c1"), STAKE_AMOUNT),
                         AddressOf("c2"), STAKE_AMOUNT)
  /\ contractBalance = 2 * STAKE_AMOUNT
  /\ paidOut = [a \in Addresses |-> 0]
  /\ directCalls = 0
  /\ lastCall = NoCall
  /\ cdTimers = [c \in Clients |-> 0]
  /\ lag = [c \in Clients |-> 0]
  /\ presses = [c \in Clients |-> 0]
  /\ finishCalls = << >>

NextLate ==
  \E c \in Clients :
    \/ ConnectJoin(c) \/ JoinEffect(c) \/ Leave(c)
    \/ StartGame(c) \/ CountdownTick(c)
    \/ Deliver(c)
SpecLate == InitLate /\ [][NextLate]_vars

(* The two players from the moment player1 sees the start button, scenes  *)
(* created, through the countdown into the first seconds of the match:    *)
(* pulls and loop iterations are possible as soon as a client renders      *)
(* isStarted (the 60s game timer does not expire in that span).            *)
InitStart ==
  /\ present = InPlay
  /\ ropeStart = CENTER
  /\ shared = ReadyToStart
  /\ local = [c \in Clients |-> IF c \in InPlay THEN ReadyToStart ELSE InitialState]
  /\ stage = [c \in Clients |-> IF c \in InPlay THEN "joined" ELSE "idle"]
  /\ connectPlayers = [c \in Clients |-> << >>]
  /\ joinTimer = [c \in Clients |-> FALSE]
  /\ sceneReady = [c \in Clients |-> c \in InPlay]
  /\ pressed = [c \in Clients |-> FALSE]
  /\ timerOn = [c \in Clients |-> FALSE]
  /\ lastWinner = [c \in Clients |-> NoWinner]
  /\ latch = [c \in Clients |-> FALSE]
  /\ iife = [c \in Clients |-> << >>]
  /\ bcReady = [c \in Clients |-> c \in InPlay]
  /\ finishedGames = [c \in Clients |-> FALSE]
  /\ room = stakeEffect(stakeEffect(EmptyRoom, AddressOf("c1"), STAKE_AMOUNT),
                         AddressOf("c2"), STAKE_AMOUNT)
  /\ contractBalance = 2 * STAKE_AMOUNT
  /\ paidOut = [a \in Addresses |-> 0]
  /\ directCalls = 0
  /\ lastCall = NoCall
  /\ cdTimers = [c \in Clients |-> 0]
  /\ lag = [c \in Clients |-> 0]
  /\ presses = [c \in Clients |-> 0]
  /\ finishCalls = << >>

NextStart ==
  \E c \in Clients :
    \/ StartGame(c) \/ CountdownTick(c)
    \/ Press(c) \/ GameLoopTick(c)
    \/ Deliver(c)
SpecStart == InitStart /\ [][NextStart]_vars

(* The same lobby, the countdown and the game timer of the scene: a match   *)
(* that nobody pulls in and that ends when a client's timer reaches 0.      *)
NextTimer ==
  \E c \in Clients :
    \/ StartGame(c) \/ CountdownTick(c)
    \/ TimeUp(c)
    \/ Deliver(c)
SpecTimer == InitStart /\ [][NextTimer]_vars

(* A match from the centre in which every write reaches both clients       *)
(* before the next key press: one step is one resolved pull, the press of  *)
(* client c (handlePull) followed by the loop iteration of client t that   *)
(* moves the rope and clears the flags.                                    *)
ResolvedPull(c, t) ==
  LET role == PlayerRole(shared, c)
      currentState == PullUpdate(shared, shared.player1Pulling \/ role = "player1",
                                         shared.player2Pulling \/ role = "player2")
      newRopePosition == NewRopePosition(currentState)
      w == LoopWinner(newRopePosition)
      newState == LoopUpdate(currentState, newRopePosition, w)
      launch == ShouldCallFinishGame(t, currentState, currentState, w)
  IN
  /\ c \in present /\ t \in present
  /\ \A k \in present : local[k] = shared /\ lag[k] = 0
  /\ role \in Roles
  /\ shared.isStarted /\ shared.winner = NoWinner
  /\ presses["c1"] + presses["c2"] + presses["c3"] < MaxSoloPulls
  /\ presses' = [presses EXCEPT ![c] = @ + 1]
  /\ shared' = newState
  /\ local' = [k \in Clients |-> IF k \in present THEN newState ELSE local[k]]
  /\ iife' = [iife EXCEPT ![t] = IF launch THEN Append(@, Closure(currentState, w)) ELSE @]
  /\ UNCHANGED <<present, ropeStart, connectPlayers, stage, joinTimer, sceneReady, pressed, timerOn, lastWinner,
                 latch, bcReady, finishedGames, chain, cdTimers, lag, finishCalls>>

InitSolo == InitPlayAt(CENTER)
NextSolo == \E c \in Clients, t \in Clients : ResolvedPull(c, t)
SpecSolo == InitSolo /\ [][NextSolo]_vars

(* The contract of one room, called directly by any address: a transaction *)
(* whose require fails reverts and leaves the storage and balances as they *)
(* were.                                                                   *)
Values == {STAKE_AMOUNT, 2 * STAKE_AMOUNT}     \* msg.value of a stake transaction
Winners == Addresses \cup {ZERO}                \* the winner argument of finishGame

Called(fn, sender, arg, result) ==
  /\ directCalls < MaxCalls
  /\ directCalls' = directCalls + 1
  /\ lastCall' = [fn |-> fn, sender |-> sender, arg |-> arg, result |-> result]
  /\ UNCHANGED page

TxStake(sender, value) ==
  /\ Called("stake", sender, ZERO, stakeResult(room, sender, value))
  /\ IF stakeRequires(room, sender, value)
     THEN /\ room' = stakeEffect(room, sender, value)
          /\ contractBalance' = contractBalance + value
          /\ UNCHANGED paidOut
     ELSE UNCHANGED <<room, contractBalance, paidOut>>

TxFinishGame(sender, winner) ==
  /\ Called("finishGame", sender, winner, finishGameResult(room, winner))
  /\ IF finishGameRequires(room, winner)
     THEN /\ room' = finishGameEffect(room, winner)
          /\ contractBalance' = contractBalance - room.totalStake
          /\ paidOut' = [paidOut EXCEPT ![winner] = @ + room.totalStake]
     ELSE UNCHANGED <<room, contractBalance, paidOut>>

TxRetrieveStake(sender) ==
  /\ Called("retrieveStake", sender, ZERO, retrieveStakeResult(room, sender))
  /\ IF retrieveStakeRequires(room, sender)
     THEN /\ room' = retrieveStakeEffect(room, sender)
          /\ contractBalance' = contractBalance - STAKE_AMOUNT
          /\ paidOut' = [paidOut EXCEPT ![sender] = @ + STAKE_AMOUNT]
     ELSE UNCHANGED <<room, contractBalance, paidOut>>

InitChain == InitWith({})
NextChain ==
  \E sender \in Addresses :
    \/ \E value \in Values : TxStake(sender, value)
    \/ \E winner \in Winners : TxFinishGame(sender, winner)
    \/ TxRetrieveStake(sender)
SpecChain == InitChain /\ [][NextChain]_vars

----------------------------------------------------------------------------
(* BlockchainService as its callers see it: each client's singleton, its    *)
(* finishedGames set (for the one roomId) and the transactions it sends.    *)

\* a method of client c's service ran: the call is recorded, the page is not touched
ServiceCalled(fn, c, arg, result) ==
  /\ bcReady[c]
  /\ directCalls < MaxCalls
  /\ directCalls' = directCalls + 1
  /\ lastCall' = [fn |-> fn, sender |-> AddressOf(c), arg |-> arg, result |-> result]
  /\ UNCHANGED <<present, shared, local, stage, connectPlayers, joinTimer, sceneReady, pressed, timerOn,
                 lastWinner, latch, bcReady, cdTimers, lag, presses, ropeStart, finishCalls>>

\* BlockchainService.initialize succeeded: isInitialized = true
SvcInitialize(c) ==
  /\ ~bcReady[c]
  /\ bcReady' = [bcReady EXCEPT ![c] = TRUE]
  /\ UNCHANGED <<present, ropeStart, connectPlayers, shared, local, stage, joinTimer, sceneReady, pressed, timerOn,
                 lastWinner, latch, iife, finishedGames, chain, cdTimers, lag, presses, finishCalls>>

\* stake(roomId): 'Already staked' is thrown before anything is written;
\* otherwise the mark is deleted and the transaction is sent and awaited
SvcStake(c) ==
  LET a == AddressOf(c) IN
  /\ IF hasStaked(room, a)
       THEN /\ ServiceCalled("stake", c, ZERO, "Already staked in this room")
            /\ UNCHANGED <<room, contractBalance, paidOut, finishedGames>>
       ELSE /\ ServiceCalled("stake", c, ZERO, stakeResult(room, a, STAKE_AMOUNT))
            /\ finishedGames' = [finishedGames EXCEPT ![c] = FALSE]
            /\ IF stakeRequires(room, a, STAKE_AMOUNT)
                 THEN /\ room' = stakeEffect(room, a, STAKE_AMOUNT)
                      /\ contractBalance' = contractBalance + STAKE_AMOUNT
                      /\ UNCHANGED paidOut
                 ELSE UNCHANGED <<room, contractBalance, paidOut>>
  /\ UNCHANGED iife

\* finishGame(roomId, winner) up to its first await: a marked room is
\* skipped, otherwise the transaction is sent
SvcFinishGame(c, winner) ==
  /\ IF finishedGames[c]
       THEN /\ ServiceCalled("finishGame", c, winner, "skipped")
            /\ UNCHANGED iife
       ELSE /\ InFlight < MaxAsync
            /\ ServiceCalled("finishGame", c, winner, "sent")
            /\ iife' = [iife EXCEPT ![c] =
                 Append(@, [roomId |-> ROOM, pc |-> "tx", winnerAddress |-> winner])]
  /\ UNCHANGED <<room, contractBalance, paidOut, finishedGames>>

\* variant: the room is marked whether or not the transaction was confirmed
MarkAfterFinish_Always(confirmed, mark) == TRUE

\* this.finishedGames.add(roomId) sits after tx.wait(): reached only on confirmation
MarkAfterFinish(confirmed, mark) == confirmed \/ mark

\* the transaction of a finishGame call is confirmed, or it is rejected by
\* the wallet or reverted by the contract and the error is rethrown
SvcFinishGameDone(c, i, accepted) ==
  LET f == iife[c][i]
      confirmed == accepted /\ finishGameRequires(room, f.winnerAddress)
  IN
  /\ i \in 1..Len(iife[c])
  /\ f.pc = "tx"
  /\ ServiceCalled("finishGame", c, f.winnerAddress,
                   IF accepted THEN finishGameResult(room, f.winnerAddress) ELSE "rejected")
  /\ iife' = [iife EXCEPT ![c] = RemoveAt(@, i)]
  /\ finishedGames' = [finishedGames EXCEPT ![c] = MarkAfterFinish(confirmed, @)]
  /\ IF confirmed
       THEN /\ room' = finishGameEffect(room, f.winnerAddress)
            /\ contractBalance' = contractBalance - room.totalStake
            /\ paidOut' = [paidOut EXCEPT ![f.winnerAddress] = @ + room.totalStake]
       ELSE UNCHANGED <<room, contractBalance, paidOut>>

InitService == InitWith({})
NextService ==
  \E c \in Clients :
    \/ SvcInitialize(c)
    \/ SvcStake(c)
    \/ \E winner \in Addresses : SvcFinishGame(c, winner)
    \/ \E i \in 1..MaxAsync, accepted \in BOOLEAN : SvcFinishGameDone(c, i, accepted)
SpecService == InitService /\ [][NextService]_vars

----------------------------------------------------------------------------
(* Claims                                                                  *)

\* Every delivered write has been rendered, no closure is in flight, no game
\* timer runs and the match is over: nothing more happens in the room.
MatchSettled ==
  /\ shared.winner # NoWinner
  /\ ~shared.isStarted
  /\ \A c \in present : lag[c] = 0 /\ iife[c] = << >> /\ ~timerOn[c] /\ local[c] = shared

\* C1: for one room, whatever the interleaving of loop ticks, updater runs
\* and asynchronous completions, finishGame(room, winner) is invoked at most
\* once.
C1_FinishGameAtMostOnce == Len(finishCalls) <= 1

\* C2: every match that reaches Finished, by threshold or by timer, ends with
\* finishGame invoked exactly once, by player1's client (the blockchain
\* service is ready and the client stays mounted in SpecPlay).
C2_FinishedMatchIsSettledOnce ==
  MatchSettled =>
    /\ Len(finishCalls) = 1
    /\ PlayerRole(shared, finishCalls[1].client) = "player1"

\* C3: finishGame is invoked only by the client whose wallet address equals,
\* case-insensitively, the address holding player1; a client holding player2
\* or no role never invokes it.
C3_OnlyPlayer1Invokes ==
  \A i \in 1..Len(finishCalls) :
    /\ FindByRole(shared.players, "player1") # 0
    /\ toLowerCase(shared.players[FindByRole(shared.players, "player1")].addr)
         = toLowerCase(AddressOf(finishCalls[i].client))
    /\ PlayerRole(shared, finishCalls[i].client) = "player1"

\* a match in which finishGame has been invoked while the other client's
\* loop saw the same winner
C3_Witness ==
  /\ Len(finishCalls) >= 1
  /\ \E c \in present : PlayerRole(shared, c) # "player1" /\ lastWinner[c] # NoWinner

\* C4: whatever the sequence of joins, clients deciding from their own
\* snapshot included, at most two addresses hold a role, the first entry of
\* players (the first address to join) holds player1 and the second player2.
C4_TwoRolesInArrivalOrder ==
  /\ Cardinality({i \in 1..Len(shared.players) : shared.players[i].role \in Roles}) <= 2
  /\ Len(shared.players) >= 1 => shared.players[1].role = "player1"
  /\ Len(shared.players) >= 2 => shared.players[2].role = "player2"

UniqueRoles(players) ==
  \A r \in Roles : Cardinality({i \in 1..Len(players) : players[i].role = r}) <= 1

\* C5: at most one player holds player1 and at most one holds player2 in
\* every state, and an address that has been given a role holds that same
\* role in every later state.
C5_RolesUniqueAndPermanent ==
  [][ /\ UniqueRoles(shared'.players)
      /\ \A c \in Clients :
           RoleAt(shared.players, AddressOf(c)) \in Roles
             => RoleAt(shared'.players, AddressOf(c)) = RoleAt(shared.players, AddressOf(c)) ]_vars

\* C6: a join request (handleConnect or the join effect) by an address that
\* is already in players leaves the shared state as it was.
C6_RejoinIsNoOp ==
  [][ \A c \in Clients :
        /\ ConnectJoin(c) \/ JoinEffect(c)
        /\ FindByAddress(shared.players, AddressOf(c)) # 0
        => shared' = shared ]_vars

\* C7: in every state, in particular after every resolution tick, the shared
\* ropePosition and every client's snapshot of it lie between
\* CENTER - MAX_DISTANCE (250) and CENTER + MAX_DISTANCE (950).
C7_RopeWithinBounds ==
  /\ CENTER - MAX_DISTANCE <= shared.ropePosition
  /\ shared.ropePosition <= CENTER + MAX_DISTANCE
  /\ \A c \in Clients :
       /\ CENTER - MAX_DISTANCE <= local[c].ropePosition
       /\ local[c].ropePosition <= CENTER + MAX_DISTANCE

\* a tick has moved the rope to the far end of its travel and handleWin has
\* written the final position
C7_Witness ==
  /\ shared.winner # NoWinner
  /\ shared.ropePosition \in {P1_WIN_POSITION, P2_WIN_POSITION}
  /\ shared.ropePosition # ropeStart
  /\ presses["c1"] + presses["c2"] > 0
  /\ \E c \in present : iife[c] # << >>
  /\ \E c \in present : lastWinner[c] = shared.winner

\* C8: every accepted pull request moves the rope by exactly PULL_FORCE
\* toward its player and is applied once: when the match is running, no
\* pull is pending and every client has rendered the shared state, the rope
\* is PULL_FORCE * (player2's pulls - player1's pulls) from where it started.
C8_EachPullAppliedOnce ==
  ( /\ shared.isStarted /\ shared.winner = NoWinner
    /\ ~shared.player1Pulling /\ ~shared.player2Pulling
    /\ \A c \in present : lag[c] = 0 /\ local[c] = shared )
  => shared.ropePosition - ropeStart = PULL_FORCE * (presses["c2"] - presses["c1"])

\* C9: when both pulling flags are true in the state a resolution tick works
\* on, the tick computes the position it started from and has nothing to
\* write: the shared ropePosition is not changed by it.
C9_SimultaneousPullsCancel ==
  \A c \in Clients :
    (LoopRunning(c) /\ local[c].player1Pulling /\ local[c].player2Pulling)
      => /\ NewRopePosition(local[c]) = local[c].ropePosition
         /\ ~shouldUpdate(local[c])
         /\ ~ENABLED GameLoopTick(c)

\* a client whose loop is running renders both flags true
C9_Witness ==
  \E c \in present :
    /\ LoopRunning(c) /\ local[c].player1Pulling /\ local[c].player2Pulling
    /\ presses["c1"] > 0 /\ presses["c2"] > 0

\* C10: the write of a resolution tick has winner = player1 and isStarted =
\* false when the position it writes is <= 302.5, winner = player2 and
\* isStarted = false when it is >= 897.5, and sets no winner when the
\* position is strictly between the two thresholds.
C10_TickWinnerAtThreshold ==
  [][ \A c \in Clients : GameLoopTick(c) =>
        LET pos == shared'.ropePosition * 100
            lo == CENTER * 100 - MAX_DISTANCE * WIN_PERCENT
            hi == CENTER * 100 + MAX_DISTANCE * WIN_PERCENT
        IN /\ pos <= lo => shared'.winner = "player1" /\ ~shared'.isStarted
           /\ pos >= hi => shared'.winner = "player2" /\ ~shared'.isStarted
           /\ (lo < pos /\ pos < hi) => shared'.winner \in {NoWinner, shared.winner} ]_vars

\* a tick has written a winner: its settlement closure is in flight and the
\* written position is past the threshold of that winner
C10_Witness ==
  /\ \E c \in present : iife[c] # << >>
  /\ ~shared.isStarted
  /\ \/ shared.winner = "player1" /\ shared.ropePosition * 100 <= CENTER * 100 - MAX_DISTANCE * WIN_PERCENT
     \/ shared.winner = "player2" /\ shared.ropePosition * 100 >= CENTER * 100 + MAX_DISTANCE * WIN_PERCENT

\* C11: when a client's game timer expires, the winner it writes is player1
\* if the rope position it holds is at or left of the centre
\* (ropePosition - CENTER <= 0) and player2 otherwise; a rope exactly at the
\* centre resolves to player1.
C11_TimeUpTieBreak ==
  [][ \A c \in Clients :
        TimeUp(c) =>
          /\ local[c].ropePosition - CENTER <= 0 => shared'.winner = "player1"
          /\ local[c].ropePosition - CENTER > 0 => shared'.winner = "player2"
          /\ (local[c] = shared /\ shared.ropePosition = CENTER) => shared'.winner = "player1" ]_vars

\* the timer has expired on a rope at the centre (no loop can declare a
\* winner there): player1 has won
C11_Witness ==
  /\ shared.winner = "player1" /\ ~shared.isStarted
  /\ shared.ropePosition = CENTER
  /\ \E c \in present : ~timerOn[c]

\* C12 as stated: from ropePosition 600, after exactly 30 resolved player1
\* pulls and no player2 pull, ropePosition is 300 and there is still no
\* winner (player1 would win on the 31st pull only).
C12_ThirtyPullsNoWinner ==
  (ropeStart = CENTER /\ presses["c1"] = 30 /\ presses["c2"] = 0)
    => shared.ropePosition = 300 /\ shared.winner = NoWinner

\* C12 amended: from ropePosition 600 with no player2 pull, after n <= 29
\* resolved player1 pulls ropePosition is 600 - 10 n with no winner, and the
\* 30th pull brings the rope to 300 <= 302.5 and makes player1 the winner;
\* there is no 31st pull.
C12_ThirtiethPullWins ==
  (ropeStart = CENTER /\ presses["c2"] = 0) =>
    /\ presses["c1"] <= 30
    /\ shared.ropePosition = CENTER - PULL_FORCE * presses["c1"]
    /\ presses["c1"] <= 29 => shared.winner = NoWinner /\ shared.isStarted
    /\ presses["c1"] = 30 => shared.winner = "player1" /\ ~shared.isStarted

\* thirty unanswered player1 pulls have been resolved
C12_Witness ==
  /\ ropeStart = CENTER /\ presses["c1"] = 30 /\ presses["c2"] = 0
  /\ shared.ropePosition = 300 /\ shared.winner = "player1"

\* C13: isCountingDown and isStarted are true only in states where players
\* has exactly two entries and every player isReady; a room that holds only
\* player1 never counts down and never starts.
C13_CountdownNeedsTwoReadyPlayers ==
  [][ ( \/ ~shared.isCountingDown /\ shared'.isCountingDown
        \/ ~shared.isStarted /\ shared'.isStarted )
        => Len(shared'.players) = 2 /\ allReady(shared'.players) ]_vars

\* C18: every loop iteration clears both pulling flags whether or not the
\* rope moves: whenever the state a running loop reads has a flag raised
\* (both flags included), the iteration performs the write that resets
\* player1Pulling and player2Pulling, so that each player can pull again.
C18_TickClearsBothFlags ==
  \A c \in present :
    (LoopRunning(c) /\ (local[c].player1Pulling \/ local[c].player2Pulling))
      => \/ shouldUpdate(local[c])
         \/ LoopWinner(NewRopePosition(local[c])) # NoWinner

\* C19: the renderer (the GameScene handlers: key press, timer, rendering of
\* a delivered state) only ever raises the pressing player's flag: it never
\* lowers a pulling flag, never writes ropePosition and never writes winner;
\* those are written by the loop alone.
C19_RendererOnlyRaisesOwnFlag ==
  [][ \A c \in Clients :
        (Press(c) \/ TimeUp(c) \/ Deliver(c)) =>
          /\ shared'.ropePosition = shared.ropePosition
          /\ shared'.winner = shared.winner
          /\ shared.player1Pulling => shared'.player1Pulling
          /\ shared.player2Pulling => shared'.player2Pulling
          /\ \A r \in Roles :
               (Press(c) /\ PlayerRole(local[c], c) # r)
                 => (shared'.player1Pulling = shared.player1Pulling \/ r # "player1")
                    /\ (shared'.player2Pulling = shared.player2Pulling \/ r # "player2") ]_vars

\* C20: once winner is set it never changes to the other role and never
\* returns to null, whichever client's loop, timeout handler or win handler
\* writes next.
C20_WinnerIsFinal ==
  [][ \A c \in Clients :
        (shared.winner # NoWinner /\ (GameLoopTick(c) \/ TimeUp(c) \/ Deliver(c)))
          => shared'.winner = shared.winner ]_vars

\* C21: showStartButton is set true only by the client whose address holds
\* player1, the start action (countdown = 3) is performed only by that
\* client and never by player2's, and no client starts the game while
\* another client's countdown is running.
C21_OnlyPlayer1Starts ==
  [][ \A c \in Clients :
        /\ ((Stake(c) \/ Deliver(c)) /\ ~shared.showStartButton /\ shared'.showStartButton)
             => RoleAt(shared'.players, AddressOf(c)) = "player1"
        /\ StartGame(c)
             => /\ RoleAt(shared.players, AddressOf(c)) = "player1"
                /\ \A d \in Clients \ {c} : cdTimers[d] = 0 ]_vars

\* C22: the start action sets countdown = 3, isCountingDown = true and
\* isStarted = false; each tick of a running countdown then lowers countdown
\* by exactly 1 (3, 2, 1), and the tick that reaches 0 clears countdown, sets
\* isCountingDown = false and isStarted = true in one write (the ticking
\* client has rendered every write made so far).
C22_CountdownThreeTwoOne ==
  [][ \A c \in Clients :
        /\ StartGame(c)
             => /\ shared'.countdown = COUNTDOWN_START
                /\ shared'.isCountingDown /\ ~shared'.isStarted
        /\ (CountdownTick(c) /\ local[c] = shared /\ shared.isCountingDown)
             => IF shared.countdown = 1
                THEN shared'.countdown = 0 /\ ~shared'.isCountingDown /\ shared'.isStarted
                ELSE /\ shared'.countdown = shared.countdown - 1
                     /\ shared'.countdown \in {1, 2}
                     /\ shared'.isCountingDown /\ ~shared'.isStarted ]_vars

\* a countdown has run to its end
C22_Witness ==
  /\ shared.isStarted /\ ~shared.isCountingDown /\ shared.countdown = 0
  /\ \A c \in Clients : cdTimers[c] = 0
  /\ \E c \in present : local[c] = shared

\* C23: a countdown that has started is never cancelled: no join, stake or
\* other concurrent write takes isCountingDown back to false other than the
\* write that completes it with isStarted = true.
C23_CountdownNotCancelled ==
  [][ shared.isCountingDown => (shared'.isCountingDown \/ shared'.isStarted) ]_vars

\* C24: at the countdown's last write, the one that takes isStarted from
\* false to true, ropePosition is 600 (CENTER), player1Pulling and
\* player2Pulling are false and winner is null.
C24_StartsCentredAndIdle ==
  [][ \A c \in Clients :
        (CountdownTick(c) /\ ~shared.isStarted
           /\ shared'.isStarted /\ ~shared'.isCountingDown /\ shared'.countdown = 0)
          => /\ shared'.ropePosition = CENTER
             /\ ~shared'.player1Pulling /\ ~shared'.player2Pulling
             /\ shared'.winner = NoWinner ]_vars

\* isReady of the entry of address a (false when a has no entry)
ReadyAt(players, a) ==
  KeyIndex(players, a) # 0 /\ players[KeyIndex(players, a)].isReady

\* C25: a player's isReady is false from joining until a stake of that
\* player's own address has been confirmed; it becomes true on that
\* confirmation and stays true afterwards.
C25_ReadyIffOwnStakeConfirmed ==
  [][ \A c \in Clients :
        /\ (~ReadyAt(shared.players, AddressOf(c)) /\ ReadyAt(shared'.players, AddressOf(c)))
             => hasStaked(room', AddressOf(c))
        /\ Stake(c) => ReadyAt(shared'.players, AddressOf(c))
        /\ ReadyAt(shared.players, AddressOf(c)) => ReadyAt(shared'.players, AddressOf(c)) ]_vars

\* C26: when two players hold player1 and player2, a join request
\* (handleConnect or the join effect) of a third address is rejected as
\* 'Room is full' and leaves the shared match state as it was.
C26_ThirdJoinRejectedWithoutMutation ==
  [][ \A c \in Clients :
        ( /\ ConnectJoin(c) \/ JoinEffect(c)
          /\ HasRole(shared.players, "player1") /\ HasRole(shared.players, "player2")
          /\ FindByAddress(shared.players, AddressOf(c)) = 0 )
          => shared' = shared /\ stage'[c] = "rejected" ]_vars

\* the pulling flag of the role client c plays
OwnFlag(st, c) ==
  \/ PlayerRole(st, c) = "player1" /\ st.player1Pulling
  \/ PlayerRole(st, c) = "player2" /\ st.player2Pulling

\* C27: a pull is accepted only while the game is started and only from a
\* player whose isReady is true, and handlePull never accepts (plays and
\* publishes) a pull while that player's previous pull is still waiting in
\* the room state to be resolved by a tick: such a request is dropped (at
\* most one outstanding pull per player).
C27_OneOutstandingPullPerPlayer ==
  [][ \A c \in Clients :
        Press(c) =>
          /\ local[c].isStarted
          /\ ReadyAt(local[c].players, AddressOf(c))
          /\ ~OwnFlag(shared, c) ]_vars

\* C28: the closure publishes gameFinishedOnBlockchain = true when finishGame
\* has returned; once the room state carries the flag it is never reset to
\* false, and no client invokes finishGame for the room any more.
C28_SettledFlagIsFinal ==
  [][ /\ \A c \in Clients : \A i \in 1..MaxAsync :
           ClosureReturned(c, i) => shared'.gameFinishedOnBlockchain
      /\ shared.gameFinishedOnBlockchain
           => /\ shared'.gameFinishedOnBlockchain
              /\ finishCalls' = finishCalls ]_vars

\* a settlement closure of client c that has not reached its finishGame call
\* yet and will make it
CallPending(c, f) ==
  /\ f.pc \in {"import", "address"}
  /\ bcReady[c]
  /\ IsPlayer1(f.players, c)
  /\ FindByRole(f.players, f.winner) # 0

\* C29: when a finishGame call fails the error is caught: the room state and
\* the client's view of it are left as they are (no rollback of winner and
\* isStarted, gameFinishedOnBlockchain not published), the client's latch
\* stays set, and the client has no further finishGame call on its way.
C29_FailedCallIsNotRetried ==
  [][ \A c \in Clients : \A i \in 1..MaxAsync :
        ClosureTx(c, i, FALSE) =>
          /\ shared' = shared /\ local' = local
          /\ latch[c] /\ latch'[c]
          /\ \A j \in 1..Len(iife'[c]) : ~CallPending(c, iife'[c][j]) ]_vars

\* C30: when the role of the winner has no entry in the players the loop
\* captured, the tick still writes the game-over state (winner set,
\* isStarted false), and the closure ends without a finishGame call, without
\* setting the latch and without publishing gameFinishedOnBlockchain.
C30_UnresolvableWinnerSkipsSettlement ==
  [][ \A c \in Clients :
        LET w == LoopWinner(NewRopePosition(local[c])) IN
        /\ (GameLoopTick(c) /\ w # NoWinner /\ FindByRole(local[c].players, w) = 0)
             => shared'.winner = w /\ ~shared'.isStarted
        /\ \A i \in 1..MaxAsync :
             (ClosureAddress(c, i)
                /\ FindByRole(iife[c][i].players, iife[c][i].winner) = 0)
               => finishCalls' = finishCalls /\ latch' = latch /\ shared' = shared ]_vars

\* C31: a resolution loop ticks only while the state its client rendered is
\* started and has no winner, and while the room state is not started or has
\* a winner no loop changes ropePosition, winner or the pulling flags.
C31_LoopActsOnlyWhilePlaying ==
  [][ \A c \in Clients :
        GameLoopTick(c) =>
          /\ local[c].isStarted /\ local[c].winner = NoWinner
          /\ (~shared.isStarted \/ shared.winner # NoWinner)
               => /\ shared'.ropePosition = shared.ropePosition
                  /\ shared'.winner = shared.winner
                  /\ shared'.player1Pulling = shared.player1Pulling
                  /\ shared'.player2Pulling = shared.player2Pulling ]_vars

\* C32: isStarted and isCountingDown are never both true in the room state,
\* and a room state with a winner is neither started nor counting down.
C32_PhaseFlagsConsistent ==
  /\ ~(shared.isStarted /\ shared.isCountingDown)
  /\ shared.winner # NoWinner => ~shared.isStarted /\ ~shared.isCountingDown

\* C33: while the room state is started and has no winner, ropePosition is
\* strictly between the win thresholds (302.5 and 897.5) and differs from
\* the centre by a multiple of the pull force.
C33_RopeBetweenThresholds ==
  (shared.isStarted /\ shared.winner = NoWinner)
    => /\ shared.ropePosition * 100 > CENTER * 100 - MAX_DISTANCE * WIN_PERCENT
       /\ shared.ropePosition * 100 < CENTER * 100 + MAX_DISTANCE * WIN_PERCENT
       /\ (shared.ropePosition - CENTER) % PULL_FORCE = 0

\* a tick has moved the rope and the match goes on
C33_Witness ==
  /\ shared.isStarted /\ shared.winner = NoWinner
  /\ shared.ropePosition # ropeStart
  /\ presses["c1"] + presses["c2"] > 0

\* C34: when a closure invokes finishGame(room, a), and when that call pays,
\* a is a key of players in the room state whose role is the winner the
\* room state carries.
C34_PaidAddressIsTheWinner ==
  [][ \A c \in Clients : \A i \in 1..MaxAsync :
        /\ (ClosureAddress(c, i) /\ finishCalls' # finishCalls)
             => RoleAt(shared.players, finishCalls'[Len(finishCalls')].winner) = shared.winner
        /\ (ClosureTx(c, i, TRUE) /\ room'.gameFinished /\ ~room.gameFinished)
             => RoleAt(shared.players, room'.winner) = shared.winner ]_vars

\* C35: a pull comes from a client whose wallet address holds a role in the
\* players of the room state, and it never turns the pulling flag of the
\* other role from false to true.
C35_PullRaisesOnlyOwnFlag ==
  [][ \A c \in Clients :
        Press(c) =>
          LET r == RoleAt(shared.players, AddressOf(c)) IN
          /\ r \in Roles
          /\ r = "player1" => (shared'.player2Pulling => shared.player2Pulling)
          /\ r = "player2" => (shared'.player1Pulling => shared.player1Pulling) ]_vars

\* C36: every entry of players holds the role player1 or player2: marking a
\* player ready after a stake never creates an entry for an address that is
\* not in players.
C36_EveryEntryHasARole ==
  \A i \in 1..Len(shared.players) : shared.players[i].role \in Roles

\* C37: once a countdown has completed (the room state is started, or the
\* match it started has a winner) no countdown interval writes again and no
\* new countdown is started: countdown does not become a number again and
\* isStarted is not set to true a second time.
C37_OneCountdownPerMatch ==
  [][ (shared.isStarted \/ shared.winner # NoWinner)
        => /\ \A c \in Clients : ~CountdownTick(c) /\ ~StartGame(c)
           /\ shared'.countdown = 0 ]_vars

\* the stakes the contract holds for the room, by address
Stakers(r) == {r.player1, r.player2} \ {ZERO}

\* C14: finishGame(room, winner) fails and leaves the room and the balances
\* unchanged when the room is inactive or unknown, already finished, or the
\* winner is not one of its staked players; a finished room stays finished,
\* so at most one finishGame call per room ever succeeds.
C14_FinishGameRejectsAndSucceedsOnce ==
  [][ /\ \A sender \in Addresses, winner \in Winners :
           TxFinishGame(sender, winner)
             /\ (~room.isActive \/ room.gameFinished \/ winner \notin Stakers(room))
             => UNCHANGED <<room, contractBalance, paidOut>> /\ lastCall'.result # "ok"
      /\ (lastCall'.fn = "finishGame" /\ lastCall'.result = "ok")
           => ~room.gameFinished /\ room'.gameFinished
      /\ room.gameFinished => room'.gameFinished ]_vars

\* a finished room on which a later finishGame call naming a staker reverted
C14_Witness ==
  /\ room.gameFinished
  /\ lastCall.fn = "finishGame" /\ lastCall.arg \in {room.player1, room.player2}
  /\ lastCall.result # "ok"

\* C15: a successful finishGame pays the winner exactly the stakes the
\* contract holds for the room, which are the two players' stakes; the room
\* holds no stake afterwards, and no later call pays anything out again.
C15_WinnerPaidTotalOnce ==
  [][ /\ (lastCall'.fn = "finishGame" /\ lastCall'.result = "ok")
           => /\ room.totalStake = 2 * STAKE_AMOUNT
              /\ contractBalance = room.totalStake
              /\ paidOut' = [paidOut EXCEPT ![lastCall'.arg] = @ + 2 * STAKE_AMOUNT]
              /\ room'.totalStake = 0
              /\ contractBalance' = 0
      /\ room.gameFinished => /\ paidOut' = paidOut
                               /\ room'.totalStake = 0 /\ contractBalance' = 0 ]_vars

\* the winner has been paid both stakes and calls made afterwards paid nothing
C15_Witness ==
  /\ room.gameFinished
  /\ paidOut[room.winner] = 2 * STAKE_AMOUNT
  /\ contractBalance = 0
  /\ directCalls > 4

\* C16: a stake by an address that already staked in the room fails and
\* changes nothing; a stake by a third address on a full room fails too, so
\* the room never holds stakes of more than two distinct addresses.
C16_OneStakePerAddressTwoPerRoom ==
  [][ /\ \A sender \in Addresses, value \in Values :
           TxStake(sender, value) /\ (hasStaked(room, sender) \/ Cardinality(Stakers(room)) = 2)
             => UNCHANGED <<room, contractBalance, paidOut>> /\ lastCall'.result # "ok"
      /\ Cardinality(Stakers(room')) <= 2
      /\ room'.player1 # ZERO => room'.player1 # room'.player2
      /\ ~room'.gameFinished => room'.totalStake = STAKE_AMOUNT * Cardinality(Stakers(room'))
      /\ contractBalance' = room'.totalStake ]_vars

\* a third address has been turned away from a room that holds two stakes
C16_Witness ==
  /\ Cardinality(Stakers(room)) = 2 /\ ~room.gameFinished
  /\ lastCall.fn = "stake" /\ lastCall.sender \notin Stakers(room)
  /\ lastCall.result = "Room is full"

PaidTotal == paidOut[AddressOf("c1")] + paidOut[AddressOf("c2")] + paidOut[AddressOf("c3")]

\* C38: after any sequence of stake, retrieveStake and finishGame calls, an
\* unfinished room records STAKE_AMOUNT per occupied player slot and a
\* finished room records 0; the contract holds exactly what the room
\* records, and a call never sends out more than the room held before it.
C38_TotalStakeMatchesSlots ==
  [][ /\ IF room'.gameFinished
           THEN room'.totalStake = 0
           ELSE room'.totalStake = STAKE_AMOUNT * Cardinality(Stakers(room'))
      /\ contractBalance' = room'.totalStake
      /\ PaidTotal' >= PaidTotal
      /\ PaidTotal' - PaidTotal <= room.totalStake
      /\ PaidTotal' - PaidTotal = IF contractBalance' < contractBalance
                                  THEN contractBalance - contractBalance' ELSE 0 ]_vars

\* a room that saw a stake withdrawn, was filled again and has been finished
C38_Witness ==
  /\ room.gameFinished /\ room.totalStake = 0
  /\ PaidTotal = 3 * STAKE_AMOUNT
  /\ paidOut[room.winner] >= 2 * STAKE_AMOUNT

====
